---- MODULE Spec2Model ----
(***************************************************************************)
(* Model of projects/land_cover/cnn/model/CNNPipeline.py: the batch        *)
(* prediction run (Predict.predict / Predict._predict / arr_to_tif), the   *)
(* training loop (Train.train_loop), the pure per-pixel and tiling         *)
(* computations of the prediction path, and CloudDataset (construction     *)
(* and __getitem__).                                                       *)
(***************************************************************************)
EXTENDS Integers, Sequences, FiniteSets, TLC

VARIABLES
    \* ---- batch prediction run (Predict.predict, Predict._predict) ----
    run,            \* "idle" | "running" | "finished" | "aborted" | "interrupted"
    runs,           \* number of predict() runs started so far
    ends,           \* how each earlier run ended (history)
    idx,            \* position of the for-loop over self.data_predict
    status,         \* per input file: stage of _predict in the current run
    outputs,        \* inference_output_dir: per input file, its <stem>_pred.tif
    ops,            \* per input file: work done for it in the current run
    doneAtStart,    \* files whose output was completely written when the run started
    designated,     \* TRUE iff the configuration sets model_filename
    models_list,    \* glob(model_dir/*.pt): the getctime of each file, in glob order
    model_filename, \* 0: not set; -1: the designated file; i > 0: models_list[i]
    \* ---- training (Train._train, Train.train_loop) ----
    tpc,            \* "loop" | "done"
    max_epoch,      \* self.max_epoch
    epoch,          \* number of epochs completed
    min_loss,       \* self.min_loss
    scheduler_counter,
    lr_steps,       \* number of self.scheduler.step() calls
    saved,          \* checkpoints written by torch.save, in order: [epoch, loss]
    seen,           \* the compare_loss values of the completed epochs (history)
    last,           \* the latest completed epoch: its loss, the losses seen before
                    \* it, whether it saved a checkpoint and stepped the scheduler
    stale,          \* consecutive epochs without improvement up to the latest one,
                    \* counted since the last improving epoch or the last decay
    improvements,   \* epochs whose loss was below that of every earlier epoch
    \* ---- LOADED step on pixel values (_predict, lines 457-464) ----
    lpc,            \* "raw" | "loaded"
    raw,            \* the raster's stored pixel values
    data_min,
    data_max,
    img,            \* pixel values handed to the tiler, as numerators over Int16Max
    \* ---- tiling and accumulation (_predict, lines 470-502) ----
    kpc,            \* "start" | "tiled" | "merged" | "error"
    shape,          \* <<H, W>> of the raster
    tile_size,
    overlap,        \* self.overlap, passed as tile_step
    pred_batch_size,
    tiler,          \* the ImageSlicer: margins, target shape, crops
    batch_i,        \* batches integrated so far
    norm_mask,      \* TileMerger weight-sum buffer over the target shape
    \* ---- arr_to_tif on pixel values (lines 553-574) ----
    wpc,            \* "start" | "written"
    src_mask,       \* src.read_masks(1), per pixel
    segments,       \* merged_mask, per pixel
    band,           \* the band written to the output, per pixel
    \* ---- CloudDataset.__getitem__ (lines 48-79) ----
    apc,            \* "start" | "returned"
    n_chan,         \* channels of the image tile
    tile_n,         \* height and width of the (square) tile
    flips,          \* the five random decisions of lines 57-69, in order
    img_x,          \* the image tensor x: per <<channel, row, col>>, where the value
                    \* comes from in the image file, as <<row, col, channel>>
    mask_y,         \* the mask tensor y: per <<row, col>>, where the value comes
                    \* from in the label file, as <<row, col>>
    \* ---- CloudDataset construction (lines 31-36, 84-96) ----
    listing,        \* per dataset_dir: os.listdir(dataset_dir/images)
    default_list,   \* the list object bound to list_files's default files_list
    datasets        \* the CloudDataset instances built so far, in order

predVars == <<run, runs, ends, idx, status, outputs, ops, doneAtStart,
              designated, models_list, model_filename>>

trainVars == <<tpc, max_epoch, epoch, min_loss, scheduler_counter, lr_steps,
               saved, seen, last, stale, improvements>>
loadVars == <<lpc, raw, data_min, data_max, img>>
tileVars == <<kpc, shape, tile_size, overlap, pred_batch_size, tiler, batch_i,
              norm_mask>>
tifVars == <<wpc, src_mask, segments, band>>
augVars == <<apc, n_chan, tile_n, flips, img_x, mask_y>>
dsVars == <<listing, default_list, datasets>>

notPred == <<trainVars, loadVars, tileVars, tifVars, augVars, dsVars>>
notTrain == <<predVars, loadVars, tileVars, tifVars, augVars, dsVars>>
notLoad == <<predVars, trainVars, tileVars, tifVars, augVars, dsVars>>
notTile == <<predVars, trainVars, loadVars, tifVars, augVars, dsVars>>
notTif == <<predVars, trainVars, loadVars, tileVars, augVars, dsVars>>
notAug == <<predVars, trainVars, loadVars, tileVars, tifVars, dsVars>>
notDs == <<predVars, trainVars, loadVars, tileVars, tifVars, augVars>>

vars == <<predVars, trainVars, loadVars, tileVars, tifVars, augVars, dsVars>>

\* ---------------------------------------------------------------------------
\* Bounds
\* ---------------------------------------------------------------------------
NumFiles == 2       \* length of self.data_predict
MaxRuns == 2        \* predict() runs (first run + restarts)
MaxModels == 2      \* checkpoint files in model_dir
MaxCtime == 2       \* distinct getctime values

MaxEpoch == 14      \* largest self.max_epoch
MaxLoss == 3        \* validation losses are 0..MaxLoss

NumPix == 2         \* pixels of the rasters of the per-pixel computations
MaxClass == 2       \* predicted classes are 0..MaxClass
MaxDim == 4         \* raster height and width are 1..MaxDim
MaxTile == 3        \* tile_size and overlap are 1..MaxTile
MaxBatch == 2       \* pred_batch_size is 1..MaxBatch

MaxChan == 3        \* image tiles have 1..MaxChan channels
MaxTileN == 3       \* image tiles are n x n, n in 1..MaxTileN

NumDirs == 2        \* dataset directories
MaxNames == 2       \* file names that may be in a directory's images folder
MaxDatasets == 3    \* CloudDataset constructions in one process

Files == 1..NumFiles

Min(a, b) == IF a < b THEN a ELSE b
Max(a, b) == IF a > b THEN a ELSE b

\* ---------------------------------------------------------------------------
\* Predict.predict: model discovery
\* ---------------------------------------------------------------------------
ModelLists == UNION {[1..n -> 1..MaxCtime] : n \in 0..MaxModels}

\* max(models_list, key=os.path.getctime): the first element with the largest
\* key; 0 stands for the ValueError max() raises on an empty list.
DiscoverOldest(l) ==
    IF l = <<>> THEN 0
    ELSE CHOOSE i \in 1..Len(l) :
            /\ \A j \in 1..Len(l) : l[j] >= l[i]
            /\ \A j \in 1..(i-1) : l[j] > l[i]

DiscoverModel(l) ==
    IF l = <<>> THEN 0
    ELSE CHOOSE i \in 1..Len(l) :
            /\ \A j \in 1..Len(l) : l[j] <= l[i]
            /\ \A j \in 1..(i-1) : l[j] < l[i]

\* os.path.isfile(raster_name)
IsFileComplete(out) == out = "complete"

IsFile(out) == out # "absent"

Stages == {"PENDING", "LOADED", "TILED", "PREDICTED", "MERGED",
           "POSTPROCESSED", "WRITING"}

InitPredict ==
    /\ run = "idle"
    /\ runs = 0
    /\ ends = <<>>
    /\ idx = 1
    /\ status = [f \in Files |-> "PENDING"]
    /\ outputs \in [Files -> {"absent", "complete"}]
    /\ ops = [f \in Files |-> {}]
    /\ doneAtStart = {}
    /\ designated \in BOOLEAN
    /\ models_list \in ModelLists
    /\ model_filename = 0

\* predict(), lines 393-428: find and load the model, list the inputs.  A
\* restart is a new process: it starts from the files on disk only.
PredictStart ==
    /\ run # "running"
    /\ runs < MaxRuns
    /\ runs' = runs + 1
    /\ ends' = IF runs = 0 THEN ends ELSE Append(ends, run)
    /\ idx' = 1
    /\ status' = [f \in Files |-> "PENDING"]
    /\ ops' = [f \in Files |-> {}]
    /\ doneAtStart' = {f \in Files : outputs[f] = "complete"}
    /\ IF designated
       THEN /\ model_filename' = -1
            /\ run' = "running"
       ELSE /\ model_filename' = DiscoverModel(models_list)
            /\ run' = IF DiscoverModel(models_list) = 0
                      THEN "aborted" ELSE "running"
    /\ UNCHANGED <<outputs, designated, models_list, notPred>>

Current == run = "running" /\ idx <= NumFiles

Advance(stage, op) ==
    /\ status' = [status EXCEPT ![idx] = stage]
    /\ ops' = [ops EXCEPT ![idx] = @ \cup {op}]

\* _predict, lines 447 / 521-525: the output is already there
PredictSkip ==
    /\ Current
    /\ status[idx] = "PENDING"
    /\ IsFile(outputs[idx])
    /\ status' = [status EXCEPT ![idx] = "SKIPPED"]
    /\ idx' = idx + 1
    /\ UNCHANGED <<run, runs, ends, outputs, ops, doneAtStart,
                   designated, models_list, model_filename, notPred>>

\* _predict, lines 447-464: read, select bands, normalize, clip
PredictLoad ==
    /\ Current
    /\ status[idx] = "PENDING"
    /\ ~IsFile(outputs[idx])
    /\ Advance("LOADED", "load")
    /\ UNCHANGED <<run, runs, ends, idx, outputs, doneAtStart,
                   designated, models_list, model_filename, notPred>>

\* _predict, lines 470-480: slice the raster into tiles
PredictTile ==
    /\ Current
    /\ status[idx] = "LOADED"
    /\ Advance("TILED", "tile")
    /\ UNCHANGED <<run, runs, ends, idx, outputs, doneAtStart,
                   designated, models_list, model_filename, notPred>>

\* _predict, lines 483-496: batched inference, accumulation
PredictInfer ==
    /\ Current
    /\ status[idx] = "TILED"
    /\ Advance("PREDICTED", "infer")
    /\ UNCHANGED <<run, runs, ends, idx, outputs, doneAtStart,
                   designated, models_list, model_filename, notPred>>

\* _predict, lines 498-502: merge, crop to the original size, squeeze
PredictMerge ==
    /\ Current
    /\ status[idx] = "PREDICTED"
    /\ Advance("MERGED", "merge")
    /\ UNCHANGED <<run, runs, ends, idx, outputs, doneAtStart,
                   designated, models_list, model_filename, notPred>>

\* _predict, line 510: median filter
PredictPostprocess ==
    /\ Current
    /\ status[idx] = "MERGED"
    /\ Advance("POSTPROCESSED", "post")
    /\ UNCHANGED <<run, runs, ends, idx, outputs, doneAtStart,
                   designated, models_list, model_filename, notPred>>

\* arr_to_tif, lines 554-573: rio.open(out_tif, 'w') creates the output file
ArrToTifOpen ==
    /\ Current
    /\ status[idx] = "POSTPROCESSED"
    /\ Advance("WRITING", "write")
    /\ outputs' = [outputs EXCEPT ![idx] = "partial"]
    /\ UNCHANGED <<run, runs, ends, idx, doneAtStart,
                   designated, models_list, model_filename, notPred>>

\* arr_to_tif, line 574 and the end of the with block: band written, file closed
ArrToTifWrite ==
    /\ Current
    /\ status[idx] = "WRITING"
    /\ status' = [status EXCEPT ![idx] = "WRITTEN"]
    /\ outputs' = [outputs EXCEPT ![idx] = "complete"]
    /\ idx' = idx + 1
    /\ UNCHANGED <<run, runs, ends, ops, doneAtStart,
                   designated, models_list, model_filename, notPred>>

\* An exception raised while a file is processed (unreadable raster, tiler
\* ValueError, inference error, write error).  Neither _predict nor the loop
\* of predict() (lines 431-432) has a handler: the exception leaves predict().
PredictRaise ==
    /\ Current
    /\ status[idx] \in Stages
    /\ ~(status[idx] = "PENDING" /\ IsFile(outputs[idx]))
    /\ status' = [status EXCEPT ![idx] = "FAILED"]
    /\ run' = "aborted"
    /\ UNCHANGED <<runs, ends, idx, outputs, ops, doneAtStart,
                   designated, models_list, model_filename, notPred>>

\* predict(), lines 431-432: the loop is exhausted
PredictReturn ==
    /\ run = "running"
    /\ idx > NumFiles
    /\ run' = "finished"
    /\ UNCHANGED <<runs, ends, idx, status, outputs, ops, doneAtStart,
                   designated, models_list, model_filename, notPred>>

\* The process is killed (the interruption the comment of lines 443-446 is about)
Interrupt ==
    /\ run = "running"
    /\ run' = "interrupted"
    /\ UNCHANGED <<runs, ends, idx, status, outputs, ops, doneAtStart,
                   designated, models_list, model_filename, notPred>>

\* ---------------------------------------------------------------------------
\* Train._train / Train.train_loop
\* ---------------------------------------------------------------------------
\* torch.tensor(float('inf')), line 296: above every validation loss
Inf == MaxLoss + 1

\* line 361: is_best = compare_loss < self.min_loss
IsBestOrEqual(compare_loss, m) == compare_loss <= m

IsBest(compare_loss, m) == compare_loss < m

\* line 365: self.min_loss = min(compare_loss, self.min_loss)
KeepMinLoss(compare_loss, m) == m

UpdateMinLoss(compare_loss, m) == Min(compare_loss, m)

\* line 376: if scheduler_counter > 5
ShouldDecayAtFive(counter) == counter > 4

ShouldDecay(counter) == counter > 5

NoEpoch == [loss |-> 0, before |-> {}, saved |-> FALSE, decayed |-> FALSE]

IdleTrain ==
    /\ tpc = "off"
    /\ max_epoch = 0
    /\ epoch = 0
    /\ min_loss = 0
    /\ scheduler_counter = 0
    /\ lr_steps = 0
    /\ saved = <<>>
    /\ seen = {}
    /\ last = NoEpoch
    /\ stale = 0
    /\ improvements = 0

\* _train line 296 and train_loop lines 305-306
InitTrain ==
    /\ tpc = "loop"
    /\ max_epoch \in 1..MaxEpoch
    /\ epoch = 0
    /\ min_loss = Inf
    /\ scheduler_counter = 0
    /\ lr_steps = 0
    /\ saved = <<>>
    /\ seen = {}
    /\ last = NoEpoch
    /\ stale = 0
    /\ improvements = 0

\* One iteration of the epoch loop, lines 308-379; compare_loss is the mean
\* validation loss of the epoch (line 360).
TrainEpoch ==
    /\ tpc = "loop"
    /\ epoch < max_epoch
    /\ \E compare_loss \in 0..MaxLoss :
        LET counted == scheduler_counter + 1                      \* line 339
            is_best == IsBest(compare_loss, min_loss)             \* line 361
            counter == IF is_best THEN 0 ELSE counted             \* line 364
            decay   == ShouldDecay(counter)                       \* line 376
            \* history: the epoch is below every earlier epoch
            below   == \A l \in seen : compare_loss < l
        IN  /\ min_loss' = IF is_best
                           THEN UpdateMinLoss(compare_loss, min_loss)
                           ELSE min_loss
            /\ saved' = IF is_best
                        THEN Append(saved, [epoch |-> epoch, loss |-> compare_loss])
                        ELSE saved
            /\ lr_steps' = IF decay THEN lr_steps + 1 ELSE lr_steps
            /\ scheduler_counter' = IF decay THEN 0 ELSE counter  \* line 379
            /\ seen' = seen \cup {compare_loss}
            /\ last' = [loss |-> compare_loss, before |-> seen,
                        saved |-> saved' # saved, decayed |-> lr_steps' # lr_steps]
            /\ stale' = IF below THEN 0
                        ELSE IF last.decayed THEN 1
                        ELSE stale + 1
            /\ improvements' = IF below THEN improvements + 1 ELSE improvements
    /\ epoch' = epoch + 1
    /\ UNCHANGED <<tpc, max_epoch, notTrain>>

\* line 381: return plot_losses
TrainReturn ==
    /\ tpc = "loop"
    /\ epoch = max_epoch
    /\ tpc' = "done"
    /\ UNCHANGED <<max_epoch, epoch, min_loss, scheduler_counter, lr_steps,
                   saved, seen, last, stale, improvements, notTrain>>

NextTrain ==
    \/ TrainEpoch
    \/ TrainReturn

\* ---------------------------------------------------------------------------
\* _predict, lines 457-464: the pixel values handed to the tiler
\* ---------------------------------------------------------------------------
\* np.iinfo(np.int16).max, line 460
Int16Max == 32767

\* .astype(np.int16), lines 457 / 556 / 562: two's complement wrap-around
AsInt16(v) == ((v + 32768) % 65536) - 32768

\* Values after the division of line 460 are rationals <<numerator, denominator>>
\* with a positive denominator.
RatLess(p, q) == p[1] * q[2] < q[1] * p[2]
RatEq(p, q) == p[1] * q[2] = q[1] * p[2]

\* img / np.iinfo(img.dtype).max, line 460
Normalize(v) == <<v, Int16Max>>

\* np.clip(img, xmin, xmax), line 152: minimum(maximum(img, xmin), xmax)
NpClip(p, xmin, xmax) ==
    LET lo == IF RatLess(p, <<xmin, 1>>) THEN <<xmin, 1>> ELSE p
    IN  IF RatLess(<<xmax, 1>>, lo) THEN <<xmax, 1>> ELSE lo

\* Preprocess.modify_pixel_extremity, lines 147-152
modify_pixel_extremity(p, xmin, xmax) == NpClip(p, xmin, xmax)

RawSamples == {-100, 0, 1, 5000, 10000, 10001, 20000, 32767}
DataMins == {0, 100}
DataMaxs == {1, 10000}

Pixels == 1..NumPix

InitLoad ==
    /\ lpc = "raw"
    /\ raw \in [Pixels -> RawSamples]
    /\ data_min \in DataMins
    /\ data_max \in DataMaxs
    /\ img = <<>>

\* _predict, lines 457-464, on every pixel: cast, normalize, then clip
PredictLoadPixels ==
    /\ lpc = "raw"
    /\ img' = [i \in Pixels |->
                modify_pixel_extremity(Normalize(AsInt16(raw[i])),
                                       data_min, data_max)]
    /\ lpc' = "loaded"
    /\ UNCHANGED <<raw, data_min, data_max, notLoad>>

NextLoad ==
    \/ PredictLoadPixels

\* ---------------------------------------------------------------------------
\* _predict, lines 470-502: tiling and accumulation
\* ---------------------------------------------------------------------------
CeilDiv(a, b) == IF a <= 0 THEN 0 ELSE (a + b - 1) \div b

\* ImageSlicer along one axis of length n: the padding added so that tiles
\* placed every `step` from 0 end exactly at the padded length.
AxisExtra(n, tile, step) ==
    LET ov == tile - step
        k  == Max(1, CeilDiv(n - ov, step))
    IN  step * k - (n - ov)

MarginBefore(n, tile, step) == AxisExtra(n, tile, step) \div 2

TargetLen(n, tile, step) == n + AxisExtra(n, tile, step)

\* the tile origins along one axis, in increasing order: 0, step, 2 step, ...
AxisOrigins(n, tile, step) ==
    LET cnt == ((TargetLen(n, tile, step) - tile) \div step) + 1
    IN  [k \in 1..cnt |-> (k - 1) * step]

\* ImageSlicer(shape, tile_size=(tile, tile), tile_step=(step, step)): margins,
\* target shape and the crops <<x, y, width, height>> in row-major order
ImageSlicer(shp, tile, step) ==
    LET ys == AxisOrigins(shp[1], tile, step)
        xs == AxisOrigins(shp[2], tile, step)
    IN  [margin_top   |-> MarginBefore(shp[1], tile, step),
         margin_left  |-> MarginBefore(shp[2], tile, step),
         target_shape |-> <<TargetLen(shp[1], tile, step),
                            TargetLen(shp[2], tile, step)>>,
         crops |-> [k \in 1..(Len(ys) * Len(xs)) |->
                      <<xs[((k - 1) % Len(xs)) + 1],
                        ys[((k - 1) \div Len(xs)) + 1], tile, tile>>]]

\* ImageSlicer raises ValueError for a step outside 1..tile_size
SlicerRejects(tile, step) == step < 1 \/ step > tile

\* TileMerger(target_shape, 1, weight): the zeroed weight-sum buffer
TileMerger(target) ==
    [q \in (1..target[1]) \X (1..target[2]) |-> 0]

\* TileMerger.integrate_batch: every tile of the batch adds the weight (the
\* default "mean" weight, 1 everywhere) on the rows and columns of its crop
Covers(crop, q) ==
    /\ q[1] \in (crop[2] + 1)..(crop[2] + crop[4])
    /\ q[2] \in (crop[1] + 1)..(crop[1] + crop[3])

integrate_batch(mask, crops, items) ==
    [q \in DOMAIN mask |->
        mask[q] + Cardinality({k \in items : Covers(crops[k], q)})]

\* DataLoader(list(zip(tiles, tiler.crops)), batch_size=...), lines 486-489:
\* the number of batches and the items of batch b (drop_last is False)
NumBatchesDropLast(n, bs) == n \div bs

NumBatches(n, bs) == (n + bs - 1) \div bs

BatchItems(n, bs, b) == {k \in 1..n : (b - 1) * bs < k /\ k <= b * bs}

InitTile ==
    /\ kpc = "start"
    /\ shape \in (1..MaxDim) \X (1..MaxDim)
    /\ tile_size \in 1..MaxTile
    /\ overlap \in 1..MaxTile
    /\ pred_batch_size \in 1..MaxBatch
    /\ tiler = <<>>
    /\ batch_i = 0
    /\ norm_mask = <<>>

\* _predict, lines 470-483: the tiler (tile_step is self.overlap), the tiles
\* and the merger over tiler.target_shape
MakeTiler ==
    /\ kpc = "start"
    /\ IF SlicerRejects(tile_size, overlap)
       THEN /\ kpc' = "error"
            /\ UNCHANGED <<tiler, norm_mask>>
       ELSE /\ kpc' = "tiled"
            /\ tiler' = ImageSlicer(shape, tile_size, overlap)
            /\ norm_mask' = TileMerger(tiler'.target_shape)
    /\ UNCHANGED <<shape, tile_size, overlap, pred_batch_size, batch_i, notTile>>

\* _predict, lines 491-496: one batch of the dataloader is predicted and integrated
IntegrateBatch ==
    /\ kpc = "tiled"
    /\ batch_i < NumBatches(Len(tiler.crops), pred_batch_size)
    /\ batch_i' = batch_i + 1
    /\ norm_mask' = integrate_batch(norm_mask, tiler.crops,
                        BatchItems(Len(tiler.crops), pred_batch_size, batch_i + 1))
    /\ UNCHANGED <<kpc, shape, tile_size, overlap, pred_batch_size, tiler, notTile>>

\* _predict, lines 498-502: the dataloader is exhausted; merge and crop
MergeCrop ==
    /\ kpc = "tiled"
    /\ batch_i = NumBatches(Len(tiler.crops), pred_batch_size)
    /\ kpc' = "merged"
    /\ UNCHANGED <<shape, tile_size, overlap, pred_batch_size, tiler, batch_i,
                   norm_mask, notTile>>

NextTile ==
    \/ MakeTiler
    \/ IntegrateBatch
    \/ MergeCrop

\* ---------------------------------------------------------------------------
\* arr_to_tif, lines 553-574, on pixel values
\* ---------------------------------------------------------------------------
\* ndval=-9999, line 518
NdVal == -9999

MaskSamples == {0, 128, 255}

\* line 565: nodatavals[nodatavals == 0] = ndval
MarkAnyNodata(m, ndval) == IF m # 255 THEN ndval ELSE m

MarkNodata(m, ndval) == IF m = 0 THEN ndval ELSE m

\* line 566: segments[nodatavals == ndval] = nodatavals[nodatavals == ndval]
Overwrite(seg, nd, ndval) == IF nd = ndval THEN nd ELSE seg

InitTif ==
    /\ wpc = "start"
    /\ src_mask \in [Pixels -> MaskSamples]
    /\ segments \in [Pixels -> 0..MaxClass]
    /\ band = <<>>

\* arr_to_tif, lines 554-574: the band written to the output raster
ArrToTifPixels ==
    /\ wpc = "start"
    /\ band' = [i \in Pixels |->
                 Overwrite(AsInt16(segments[i]),
                           MarkNodata(AsInt16(src_mask[i]), NdVal), NdVal)]
    /\ wpc' = "written"
    /\ UNCHANGED <<src_mask, segments, notTif>>

NextTif ==
    \/ ArrToTifPixels

\* ---------------------------------------------------------------------------
\* CloudDataset.__getitem__, lines 48-79, with open_image / open_mask
\* ---------------------------------------------------------------------------
Chans == 1..n_chan
Side == 1..tile_n

\* imread of the image file, line 99: height x width x channel; every value
\* is tagged with its own position in the file
ImageFile == [q \in Side \X Side \X Chans |-> q]

\* imread of the label file, line 104: height x width
LabelFile == [q \in Side \X Side |-> q]

\* image.transpose((2, 0, 1)), line 100: channel x height x width
Transpose201(a) == [q \in Chans \X Side \X Side |-> a[<<q[2], q[3], q[1]>>]]

\* open_image, lines 98-101 (the division of line 101 moves no value)
open_image == Transpose201(ImageFile)

\* open_mask, lines 103-105 (add_dims is False)
open_mask == LabelFile

\* torch.fliplr: the entries along dimension 1 are reversed
fliplr3(a) == [q \in DOMAIN a |-> a[<<q[1], tile_n + 1 - q[2], q[3]>>]]
fliplr2(a) == [q \in DOMAIN a |-> a[<<q[1], tile_n + 1 - q[2]>>]]

\* torch.flipud: the entries along dimension 0 are reversed
flipud3(a) == [q \in DOMAIN a |-> a[<<n_chan + 1 - q[1], q[2], q[3]>>]]
flipud2(a) == [q \in DOMAIN a |-> a[<<tile_n + 1 - q[1], q[2]>>]]

\* torch.rot90(a, k=1, dims=[1, 2]) on a 3-D tensor and
\* torch.rot90(a, k=1, dims=[0, 1]) on a 2-D tensor: out[i, j] = a[j, n-1-i]
rot90x(a) == [q \in DOMAIN a |-> a[<<q[1], q[3], tile_n + 1 - q[2]>>]]
rot90y(a) == [q \in DOMAIN a |-> a[<<q[2], tile_n + 1 - q[1]>>]]

RECURSIVE rotx(_, _)
rotx(a, k) == IF k = 0 THEN a ELSE rotx(rot90x(a), k - 1)

RECURSIVE roty(_, _)
roty(a, k) == IF k = 0 THEN a ELSE roty(rot90y(a), k - 1)

IdleAug ==
    /\ apc = "off"
    /\ n_chan = 0
    /\ tile_n = 0
    /\ flips = <<>>
    /\ img_x = <<>>
    /\ mask_y = <<>>

InitAug ==
    /\ apc = "start"
    /\ n_chan \in 1..MaxChan
    /\ tile_n \in 1..MaxTileN
    /\ flips = <<>>
    /\ img_x = <<>>
    /\ mask_y = <<>>

\* __getitem__(idx) with augment=True, lines 48-79; d[i] is the outcome of
\* the i-th np.random.random_sample() > 0.5
GetItem ==
    /\ apc = "start"
    /\ \E d \in [1..5 -> BOOLEAN] :
        LET x0 == open_image                                      \* line 51
            y0 == open_mask                                       \* line 52
            x1 == IF d[1] THEN fliplr3(x0) ELSE x0                \* line 58
            y1 == IF d[1] THEN fliplr2(y0) ELSE y0                \* line 59
            x2 == IF d[2] THEN flipud3(x1) ELSE x1                \* line 61
            y2 == IF d[2] THEN flipud2(y1) ELSE y1                \* line 62
            x3 == IF d[3] THEN rotx(x2, 1) ELSE x2                \* line 64
            y3 == IF d[3] THEN roty(y2, 1) ELSE y2                \* line 65
            x4 == IF d[4] THEN rotx(x3, 2) ELSE x3                \* line 67
            y4 == IF d[4] THEN roty(y3, 2) ELSE y3                \* line 68
            x5 == IF d[5] THEN rotx(x4, 3) ELSE x4                \* line 70
            y5 == IF d[5] THEN roty(y4, 3) ELSE y4                \* line 71
        IN  /\ flips' = d
            /\ img_x' = x5
            /\ mask_y' = y5
    /\ apc' = "returned"
    /\ UNCHANGED <<n_chan, tile_n, notAug>>

NextAug ==
    \/ GetItem

\* ---------------------------------------------------------------------------
\* CloudDataset.__init__ / list_files, lines 31-36 and 84-96
\* ---------------------------------------------------------------------------
Dirs == 1..NumDirs

\* the possible results of os.listdir(images_dir): distinct names, any order
Listings ==
    {l \in UNION {[1..n -> 1..MaxNames] : n \in 0..MaxNames} :
        \A i, j \in 1..Len(l) : i # j => l[i] # l[j]}

\* lines 86-95: the dictionary appended for the name i of dataset_dir d
FileEntry(d, i) == [image |-> <<d, "images", i>>, label |-> <<d, "labels", i>>]

\* list_files(dataset_dir, files_list), lines 84-96: one entry is appended to
\* files_list per name of images_dir, and files_list is returned
list_files(d, files_list) ==
    files_list \o [k \in 1..Len(listing[d]) |-> FileEntry(d, listing[d][k])]

\* self.files of an instance.  __init__ (line 35) calls list_files without
\* files_list, so the parameter is bound to the one list object created when
\* the def statement of line 84 was executed; list_files returns that same
\* object and every instance's self.files refers to it.
files(inst) == default_list

\* __len__, line 42
len(inst) == Len(files(inst))

IdleDs ==
    /\ listing = <<>>
    /\ default_list = <<>>
    /\ datasets = <<>>

\* the class has just been defined: the default list is empty, no instance yet
InitDs ==
    /\ listing \in [Dirs -> Listings]
    /\ default_list = <<>>
    /\ datasets = <<>>

\* CloudDataset(dataset_dir=d), lines 31-36 (as in _train, line 277)
NewCloudDataset ==
    /\ Len(datasets) < MaxDatasets
    /\ \E d \in Dirs :
        /\ default_list' = list_files(d, default_list)
        /\ datasets' = Append(datasets, [dataset_dir |-> d, pytorch |-> TRUE])
    /\ UNCHANGED <<listing, notDs>>

NextDs ==
    \/ NewCloudDataset

IdleLoad ==
    /\ lpc = "off"
    /\ raw = <<>>
    /\ data_min = 0
    /\ data_max = 0
    /\ img = <<>>

IdleTile ==
    /\ kpc = "off"
    /\ shape = <<0, 0>>
    /\ tile_size = 0
    /\ overlap = 0
    /\ pred_batch_size = 0
    /\ tiler = <<>>
    /\ batch_i = 0
    /\ norm_mask = <<>>

IdleTif ==
    /\ wpc = "off"
    /\ src_mask = <<>>
    /\ segments = <<>>
    /\ band = <<>>

IdlePredict ==
    /\ run = "off"
    /\ runs = 0
    /\ ends = <<>>
    /\ idx = 1
    /\ status = <<>>
    /\ outputs = <<>>
    /\ ops = <<>>
    /\ doneAtStart = {}
    /\ designated = FALSE
    /\ models_list = <<>>
    /\ model_filename = 0

Init == InitPredict /\ IdleTrain /\ IdleLoad /\ IdleTile /\ IdleTif /\ IdleAug /\ IdleDs

Next ==
    \/ PredictStart
    \/ PredictSkip
    \/ PredictLoad
    \/ PredictTile
    \/ PredictInfer
    \/ PredictMerge
    \/ PredictPostprocess
    \/ ArrToTifOpen
    \/ ArrToTifWrite
    \/ PredictRaise
    \/ PredictReturn
    \/ Interrupt

Spec == Init /\ [][Next]_vars

TrainInit == InitTrain /\ IdlePredict /\ IdleLoad /\ IdleTile /\ IdleTif /\ IdleAug /\ IdleDs

SpecTrain == TrainInit /\ [][NextTrain]_vars

LoadInit == InitLoad /\ IdlePredict /\ IdleTrain /\ IdleTile /\ IdleTif /\ IdleAug /\ IdleDs

SpecLoad == LoadInit /\ [][NextLoad]_vars

TileInit == InitTile /\ IdlePredict /\ IdleTrain /\ IdleLoad /\ IdleTif /\ IdleAug /\ IdleDs

SpecTile == TileInit /\ [][NextTile]_vars

TifInit == InitTif /\ IdlePredict /\ IdleTrain /\ IdleLoad /\ IdleTile /\ IdleAug /\ IdleDs

SpecTif == TifInit /\ [][NextTif]_vars

AugInit == InitAug /\ IdlePredict /\ IdleTrain /\ IdleLoad /\ IdleTile /\ IdleTif /\ IdleDs

SpecAug == AugInit /\ [][NextAug]_vars

DsInit == InitDs /\ IdlePredict /\ IdleTrain /\ IdleLoad /\ IdleTile /\ IdleTif /\ IdleAug

SpecDs == DsInit /\ [][NextDs]_vars

\* ---------------------------------------------------------------------------
\* Properties of the per-pixel and tiling computations
\* ---------------------------------------------------------------------------
Clamp(x, lo, hi) == IF x < lo THEN lo ELSE IF x > hi THEN hi ELSE x

\* C7: every pixel value given to the tiler is the raw value clipped to
\* [data_min, data_max] and then divided by the dtype's maximum:
\* clamp(x, data_min, data_max) / dtype_max.
C7_ClipThenNormalize ==
    lpc = "loaded" =>
        \A i \in Pixels :
            RatEq(img[i], <<Clamp(raw[i], data_min, data_max), Int16Max>>)

C9_NodataOverwritten ==
    wpc = "written" =>
        \A i \in Pixels :
            band[i] = IF src_mask[i] = 0 THEN -9999 ELSE segments[i]

C9_Witness ==
    /\ wpc = "written"
    /\ \E i, j \in Pixels : /\ src_mask[i] = 0
                            /\ band[i] = -9999
                            /\ src_mask[j] = 128
                            /\ band[j] = segments[j]

\* ---------------------------------------------------------------------------
\* Properties of the batch prediction run (Spec)
\* ---------------------------------------------------------------------------

\* C1: when _predict starts on a file whose <stem>_pred.tif already exists, the
\* file goes directly from PENDING to SKIPPED, the output directory is left as
\* it is, and no load, tiling, inference or write is performed for the file.
C1_SkipExisting ==
    /\ [](\A f \in Files : status[f] = "SKIPPED" => ops[f] = {})
    /\ [][\A f \in Files :
            (/\ run = "running"
             /\ idx = f
             /\ status[f] = "PENDING"
             /\ outputs[f] # "absent"
             /\ status'[f] # "PENDING")
            => (/\ status'[f] = "SKIPPED"
                /\ outputs' = outputs
                /\ ops' = ops)]_vars

C1_Witness ==
    \E f \in Files : /\ status[f] = "SKIPPED"
                     /\ outputs[f] # "absent"
                     /\ run = "finished"

\* C2: a run restarted after interruptions skips exactly the files that were
\* completed, processes every other file, and when it finishes every input
\* file has a completely written output raster.
C2_RestartCompletes ==
    (/\ run = "finished"
     /\ runs >= 2
     /\ \A i \in 1..Len(ends) : ends[i] = "interrupted")
    => \A f \in Files :
        /\ outputs[f] = "complete"
        /\ status[f] = "SKIPPED" <=> f \in doneAtStart
        /\ status[f] = "WRITTEN" <=> f \notin doneAtStart

\* C3: a failure while one file is processed aborts only that file; every
\* later file of the list is still processed (WRITTEN or SKIPPED) by the run.
C3_FailureIsolated ==
    \A f, g \in Files :
        (/\ run \in {"finished", "aborted"}
         /\ status[f] = "FAILED"
         /\ g > f)
        => status[g] \in {"WRITTEN", "SKIPPED"}

\* C10: with no designated model file and no checkpoint in the model
\* directory, predict() aborts before any input file is loaded, predicted or
\* written; with checkpoints present, the one selected is the most recent.
C10_ModelDiscovery ==
    /\ (runs >= 1 /\ ~designated /\ models_list = <<>>)
        => /\ run = "aborted"
           /\ \A f \in Files : status[f] = "PENDING" /\ ops[f] = {}
    /\ (runs >= 1 /\ ~designated /\ models_list # <<>>)
        => /\ model_filename \in 1..Len(models_list)
           /\ \A j \in 1..Len(models_list) :
                models_list[j] <= models_list[model_filename]

C10_Witness ==
    /\ runs = MaxRuns
    /\ ~designated
    /\ models_list = <<>>
    /\ run = "aborted"

\* ---------------------------------------------------------------------------
\* Properties of the training loop (SpecTrain)
\* ---------------------------------------------------------------------------
MinOf(S) == CHOOSE x \in S : \A y \in S : x <= y

\* the running minimum over a set of earlier losses, +infinity when there is none
RunningMin(S) == IF S = {} THEN Inf ELSE MinOf(S)

\* C4: a checkpoint is saved in an epoch only if the epoch's validation loss is
\* strictly below the running minimum of all earlier epochs, and after each
\* epoch min_loss is the smallest validation loss seen so far.
C4_CheckpointOnlyOnImprovement ==
    epoch > 0 =>
        /\ last.saved => last.loss < RunningMin(last.before)
        /\ last.saved => saved[Len(saved)] = [epoch |-> epoch - 1, loss |-> last.loss]
        /\ min_loss = MinOf(seen)

C4_Witness ==
    /\ epoch > 2
    /\ last.saved
    /\ Cardinality(last.before) = 2
    /\ min_loss = last.loss

CounterReset ==
    (epoch > 0 /\ (last.loss < RunningMin(last.before) \/ last.decayed))
        => scheduler_counter = 0

\* C5 as stated: the scheduler is stepped exactly at the end of an epoch that
\* completes 5 consecutive epochs without improvement; the counter is reset on
\* every decay and every improving epoch.
C5_DecayAfterFive ==
    /\ epoch > 0 => (last.decayed <=> stale = 5)
    /\ CounterReset

\* C5 amended: the scheduler is stepped exactly at the end of an epoch that
\* completes 6 consecutive epochs without improvement (the counter must exceed
\* 5); the counter is reset on every decay and every improving epoch.
C5_DecayAfterSix ==
    /\ epoch > 0 => (last.decayed <=> stale = 6)
    /\ CounterReset

C5_Witness ==
    /\ lr_steps = 2
    /\ last.decayed
    /\ stale = 6
    /\ scheduler_counter = 0

\* C6: a 2-epoch run whose second validation loss is higher than the first
\* saves exactly one checkpoint, that of the minimum-loss epoch; in general the
\* number of checkpoints equals the number of epochs strictly below every
\* earlier epoch, and the last checkpoint is of an epoch with the minimum loss.
C6_CheckpointCount ==
    /\ (tpc = "done" /\ max_epoch = 2 /\ last.loss > MinOf(last.before))
        => /\ Len(saved) = 1
           /\ saved[1] = [epoch |-> 0, loss |-> MinOf(seen)]
    /\ Len(saved) = improvements
    /\ saved # <<>> => saved[Len(saved)].loss = MinOf(seen)

C6_Witness ==
    /\ tpc = "done"
    /\ max_epoch = 2
    /\ last.loss > MinOf(last.before)
    /\ Len(saved) = 1

\* ---------------------------------------------------------------------------
\* Properties of the dataset (SpecAug, SpecDs)
\* ---------------------------------------------------------------------------
\* C11: for every combination of the five flip/rotation decisions, the
\* returned image has its channels in the original order and, at every spatial
\* position (r, c), image pixel and mask pixel come from the same source
\* position.
C11_SameTransform ==
    apc = "returned" =>
        \A k \in Chans, r \in Side, c \in Side :
            img_x[<<k, r, c>>] = <<mask_y[<<r, c>>][1], mask_y[<<r, c>>][2], k>>

\* C12: after any sequence of CloudDataset constructions, each instance's file
\* list (and hence its len) holds exactly one image/label pair per entry of its
\* own dataset_dir/images, and nothing carried over from other constructions.
C12_OwnFilesOnly ==
    \A k \in 1..Len(datasets) :
        LET d == datasets[k].dataset_dir
        IN  /\ len(datasets[k]) = Len(listing[d])
            /\ \A i \in 1..Len(listing[d]) :
                 files(datasets[k])[i] = FileEntry(d, listing[d][i])

====
